---- MODULE Spec2Model ----
(***************************************************************************)
(* Model of api/core/workflow/graph_engine/entities/graph.py: the Graph    *)
(* aggregate (root_node_id, node_ids, edge_mapping, parallel_mapping,      *)
(* node_parallel_mapping, run_state.routes), its constructor Graph.init    *)
(* and the operations next_node_ids, add_extra_edge and get_leaf_node_ids. *)
(*                                                                         *)
(* Node ids are strings; None and the empty string (both falsy in the      *)
(* source's tests "if not x") are the empty string.  A Python dict is a    *)
(* function whose DOMAIN is its key set; where the source iterates a dict, *)
(* the dict is a record [keys, vals] that keeps the insertion order.       *)
(* GraphParallel ids (uuid4 in the source) are fresh naturals; a missing   *)
(* parent_parallel_id is 0.                                                *)
(***************************************************************************)
EXTENDS Naturals, Sequences, FiniteSets, TLC

\* ------------------------------------------------------------- bounds
\* number of node ids the configs are drawn over
NumNodes == 4
\* longest edge list of a config
MaxEdges == 4
\* longest edge list of a config whose Graph is then mutated or queried
MaxLiveEdges == 3
\* number of add_extra_edge calls made on one Graph
MaxExtraEdges == 1
\* number of route steps the engine records in one run
MaxRoutes == 2

NodeName == <<"A", "B", "C", "D", "E", "F">>
Nodes == {NodeName[i] : i \in 1..NumNodes}
NodeIndex(n) == CHOOSE i \in 1..Len(NodeName) : NodeName[i] = n

None == ""
NoParallel == 0
START == "start"
OtherType == "llm"

\* ------------------------------------------------------------- helpers
\* x in list
Contains(seq, x) == \E i \in DOMAIN seq : seq[i] = x
\* dict.get(k, [])
Get(d, k) == IF k \in DOMAIN d THEN d[k] ELSE <<>>
\* d[k] = v
Put(d, k, v) == [x \in (DOMAIN d) \cup {k} |-> IF x = k THEN v ELSE d[x]]
EmptyDict == <<>>
SeqToSet(seq) == {seq[i] : i \in DOMAIN seq}
NoDuplicates(seq) == \A i, j \in DOMAIN seq : seq[i] = seq[j] => i = j

\* ------------------------------------------------------------- entities
NoCondition == [type |-> "none", branch_identify |-> ""]
RunCondition(handle) == [type |-> "branch_identify", branch_identify |-> handle]
GraphEdge(s, t, c) == [source_node_id |-> s, target_node_id |-> t, run_condition |-> c]
GraphParallel(id, parent) == [id |-> id, parent_parallel_id |-> parent]
GraphStateRoute(rid, n) == [route_id |-> rid, node_id |-> n]
NextGraphNode(n, p) == [node_id |-> n, parallel |-> p]
\* the value of NextGraphNode.parallel when there is none
NullParallel == GraphParallel(NoParallel, NoParallel)

\* ------------------------------------------------------------- Graph.init
\* lines 97-128: group the edge configs by source; an entry without source is
\* skipped, an entry without target is skipped after its source's (possibly
\* empty) list was created
RECURSIVE reorganize_edges(_, _, _, _)
reorganize_edges(edge_configs, i, em, tgt) ==
    IF i > Len(edge_configs)
    THEN [edge_mapping |-> em, target_edge_ids |-> tgt]
    ELSE LET ec == edge_configs[i]
             src == ec.source
             em1 == IF src \in DOMAIN em THEN em ELSE Put(em, src, <<>>)
             cond == IF ec.sourceHandle # None
                     THEN RunCondition(ec.sourceHandle) ELSE NoCondition
         IN  IF src = None
             THEN reorganize_edges(edge_configs, i + 1, em, tgt)
             ELSE IF ec.target = None
             THEN reorganize_edges(edge_configs, i + 1, em1, tgt)
             ELSE reorganize_edges(edge_configs, i + 1,
                      Put(em1, src, Append(em1[src], GraphEdge(src, ec.target, cond))),
                      tgt \cup {ec.target})

\* lines 137-145: the node configs with an id that is no edge's target
root_node_configs(node_configs, tgt) ==
    SelectSeq(node_configs, LAMBDA nc : nc.id # None /\ nc.id \notin tgt)

\* lines 150-153: the value root_node_id holds before the check of line 155.
\* With no argument it is the first START node CONFIG (the dict itself, the
\* source takes no .get('id') of it), or None.
resolve_root(arg, rncs) ==
    IF arg # None THEN [kind |-> "id", id |-> arg]
    ELSE LET starts == SelectSeq(rncs, LAMBDA nc : nc.type = START)
         IN  IF starts # <<>> THEN [kind |-> "node_config", id |-> starts[1].id]
             ELSE [kind |-> "none", id |-> None]

\* line 155: not root_node_id or root_node_id not in root_node_ids.  A node
\* config dict is truthy and equals no element of the id list.
root_not_found(root, root_ids) ==
    \/ root.kind = "none"
    \/ root.kind = "node_config"
    \/ root.kind = "id" /\ ~Contains(root_ids, root.id)

\* lines 190-211
RECURSIVE recursively_add_node_ids(_, _, _), add_node_ids_loop(_, _, _, _)
add_node_ids_visit(node_ids, target) == ~Contains(node_ids, target)
add_node_ids_loop(node_ids, em, edges, i) ==
    IF i > Len(edges) THEN node_ids
    ELSE LET t == edges[i].target_node_id
         IN  IF ~add_node_ids_visit(node_ids, t)
             THEN add_node_ids_loop(node_ids, em, edges, i + 1)
             ELSE add_node_ids_loop(
                      recursively_add_node_ids(Append(node_ids, t), em, t),
                      em, edges, i + 1)
recursively_add_node_ids(node_ids, em, node_id) ==
    add_node_ids_loop(node_ids, em, Get(em, node_id), 1)

\* lines 436-456
RECURSIVE recursively_fetch_routes(_, _, _), fetch_routes_loop(_, _, _, _)
fetch_routes_loop(em, edges, i, routes_node_ids) ==
    IF i > Len(edges) THEN routes_node_ids
    ELSE LET t == edges[i].target_node_id
         IN  IF Contains(routes_node_ids, t)
             THEN fetch_routes_loop(em, edges, i + 1, routes_node_ids)
             ELSE fetch_routes_loop(em, edges, i + 1,
                      recursively_fetch_routes(em, t, Append(routes_node_ids, t)))
recursively_fetch_routes(em, start_node_id, routes_node_ids) ==
    IF start_node_id \notin DOMAIN em THEN routes_node_ids
    ELSE fetch_routes_loop(em, em[start_node_id], 1, routes_node_ids)

\* lines 343-366
RECURSIVE recursively_add_parallel_node_ids(_, _, _, _), add_parallel_node_ids_loop(_, _, _, _, _)
add_parallel_node_ids_loop(branch_node_ids, em, merge_node_id, edges, i) ==
    IF i > Len(edges) THEN branch_node_ids
    ELSE LET t == edges[i].target_node_id
         IN  IF t # merge_node_id /\ ~Contains(branch_node_ids, t)
             THEN add_parallel_node_ids_loop(
                      recursively_add_parallel_node_ids(
                          Append(branch_node_ids, t), em, merge_node_id, t),
                      em, merge_node_id, edges, i + 1)
             ELSE add_parallel_node_ids_loop(branch_node_ids, em, merge_node_id,
                                             edges, i + 1)
recursively_add_parallel_node_ids(branch_node_ids, em, merge_node_id, start_node_id) ==
    add_parallel_node_ids_loop(branch_node_ids, em, merge_node_id,
                               Get(em, start_node_id), 1)

\* ordered dicts: keys in insertion order, vals the mapping
EmptyODict == [keys |-> <<>>, vals |-> EmptyDict]
\* d[k] = v (a key already present keeps its position)
OPut(d, k, v) ==
    [keys |-> IF Contains(d.keys, k) THEN d.keys ELSE Append(d.keys, k),
     vals |-> Put(d.vals, k, v)]
\* d.setdefault(k, []).append(v), lines 399-402
OAppend(d, k, v) == OPut(d, k, Append(Get(d.vals, k), v))

\* lines 375-384
RECURSIVE routes_node_ids_of(_, _, _, _)
routes_node_ids_of(em, parallel_node_ids, i, acc) ==
    IF i > Len(parallel_node_ids) THEN acc
    ELSE routes_node_ids_of(em, parallel_node_ids, i + 1,
             OPut(acc, parallel_node_ids[i],
                  recursively_fetch_routes(em, parallel_node_ids[i], <<>>)))

\* lines 388-402 (leaf_node_ids of lines 387-395 is written and never read)
RECURSIVE merge_branch_node_ids_of(_, _, _, _, _)
merge_branch_node_ids_of(rn, bi, ni, b2i, acc) ==
    IF bi > Len(rn.keys) THEN acc
    ELSE IF ni > Len(rn.vals[rn.keys[bi]])
    THEN merge_branch_node_ids_of(rn, bi + 1, 1, 1, acc)
    ELSE IF b2i > Len(rn.keys)
    THEN merge_branch_node_ids_of(rn, bi, ni + 1, 1, acc)
    ELSE LET branch_node_id == rn.keys[bi]
             node_id == rn.vals[branch_node_id][ni]
             branch_node_id2 == rn.keys[b2i]
         IN  IF branch_node_id # branch_node_id2
                /\ Contains(rn.vals[branch_node_id2], node_id)
             THEN merge_branch_node_ids_of(rn, bi, ni, b2i + 1,
                      OAppend(acc, node_id, branch_node_id2))
             ELSE merge_branch_node_ids_of(rn, bi, ni, b2i + 1, acc)

\* line 405: sorted(items, key=len(value), reverse=True), a stable sort
RemoveAt(seq, i) == SubSeq(seq, 1, i - 1) \o SubSeq(seq, i + 1, Len(seq))
RECURSIVE sorted_by_len_desc(_, _)
sorted_by_len_desc(keys, vals) ==
    IF keys = <<>> THEN <<>>
    ELSE LET first == CHOOSE i \in DOMAIN keys :
                        /\ \A j \in DOMAIN keys :
                              Len(vals[keys[j]]) <= Len(vals[keys[i]])
                        /\ \A j \in 1..(i - 1) :
                              Len(vals[keys[j]]) < Len(vals[keys[i]])
         IN  <<keys[first]>> \o sorted_by_len_desc(RemoveAt(keys, first), vals)

\* lines 407-416
RECURSIVE branches_merge_node_ids_of(_, _, _, _, _)
branches_merge_node_ids_of(keys, vals, ki, bi, acc) ==
    IF ki > Len(keys) THEN acc
    ELSE IF Len(vals[keys[ki]]) <= 1 \/ bi > Len(vals[keys[ki]])
    THEN branches_merge_node_ids_of(keys, vals, ki + 1, 1, acc)
    ELSE LET branch_node_id == vals[keys[ki]][bi]
         IN  IF branch_node_id \in DOMAIN acc
             THEN branches_merge_node_ids_of(keys, vals, ki, bi + 1, acc)
             ELSE branches_merge_node_ids_of(keys, vals, ki, bi + 1,
                      Put(acc, branch_node_id, keys[ki]))

\* lines 418-432
RECURSIVE in_branch_node_ids_of(_, _, _, _, _)
in_branch_node_ids_of(em, rn, bm, i, acc) ==
    IF i > Len(rn.keys) THEN acc
    ELSE LET branch_node_id == rn.keys[i]
         IN  in_branch_node_ids_of(em, rn, bm, i + 1,
                 OPut(acc, branch_node_id,
                      IF branch_node_id \notin DOMAIN bm
                      THEN <<branch_node_id>> \o rn.vals[branch_node_id]
                      ELSE recursively_add_parallel_node_ids(
                               <<branch_node_id>>, em, bm[branch_node_id],
                               branch_node_id)))

\* lines 368-434: the ordered dict branch root -> node ids of its branch
fetch_all_node_ids_in_parallels(em, parallel_node_ids) ==
    LET rn == routes_node_ids_of(em, parallel_node_ids, 1, EmptyODict)
        merge == merge_branch_node_ids_of(rn, 1, 1, 1, EmptyODict)
        sorted == sorted_by_len_desc(merge.keys, merge.vals)
        bm == branches_merge_node_ids_of(sorted, merge.vals, 1, 1, EmptyDict)
    IN  in_branch_node_ids_of(em, rn, bm, 1, EmptyODict)

\* lines 315-316: the targets of the conditioned edges
parallel_node_ids_of(target_node_edges) ==
    LET conditioned == SelectSeq(target_node_edges,
                                 LAMBDA e : e.run_condition # NoCondition)
    IN  [i \in DOMAIN conditioned |-> conditioned[i].target_node_id]

\* lines 321-323
parent_parallel_id_of(parallel_node_ids, npm) ==
    IF \A i \in DOMAIN parallel_node_ids : parallel_node_ids[i] \in DOMAIN npm
    THEN npm[parallel_node_ids[1]]
    ELSE NoParallel

\* a variant of new_parallel_id: the default evaluated once, every
\* GraphParallel gets the same id
new_parallel_id_shared(pm) == 1

\* line 24: a uuid4, never one handed out before
new_parallel_id(pm) == Cardinality(DOMAIN pm) + 1

\* line 333: the ids the comprehension "for node_id in in_branch_node_ids"
\* yields: iterating a dict yields its keys
recorded_node_ids(in_branch_node_ids) == in_branch_node_ids.keys

\* line 333: node_parallel_mapping.update({node_id: parallel.id ...})
update_node_parallel_mapping(npm, ids, pid) ==
    [n \in (DOMAIN npm) \cup SeqToSet(ids) |->
        IF n \in SeqToSet(ids) THEN pid ELSE npm[n]]

\* a variant of is_fan_out: the threshold off by one
is_fan_out_single_edge(target_node_edges) == Len(target_node_edges) >= 1

\* line 313: a node with more than one outgoing edge is examined for a fan-out
is_fan_out(target_node_edges) == Len(target_node_edges) > 1

\* lines 319-333: one detection pass at start_node_id.  st.passes is the
\* history of the passes: what each computed and the mapping it left.
detection_pass(em, start_node_id, parallel_node_ids, st) ==
    LET parallel == GraphParallel(new_parallel_id(st.pm),
                                  parent_parallel_id_of(parallel_node_ids, st.npm))
        in_branch_node_ids == fetch_all_node_ids_in_parallels(em, parallel_node_ids)
        npm1 == update_node_parallel_mapping(
                    st.npm, recorded_node_ids(in_branch_node_ids), parallel.id)
    IN  [pm |-> Put(st.pm, parallel.id, parallel),
         npm |-> npm1,
         passes |-> Append(st.passes,
                       [node_id |-> start_node_id,
                        parallel |-> parallel,
                        parallel_node_ids |-> parallel_node_ids,
                        in_branch_node_ids |-> in_branch_node_ids,
                        npm_before |-> st.npm,
                        npm_after |-> npm1]),
         err |-> FALSE]

\* The interpreter's call-stack limit, scaled to the model: every node id of a
\* config is one of NumNodes ids, so a chain of more than NumNodes nested calls
\* holds one node twice, and the calls below a repeated node repeat for ever
\* (the recursion of lines 335-341 depends on edge_mapping alone).
RecursionLimit == NumNodes

\* lines 298-341.  st.err: the recursion exceeded the call stack
\* (RecursionError); it then unwinds without further effect.
RECURSIVE recursively_add_parallels(_, _, _, _), add_parallels_loop(_, _, _, _, _)
add_parallels_loop(em, edges, i, st, depth) ==
    IF i > Len(edges) \/ st.err THEN st
    ELSE add_parallels_loop(em, edges, i + 1,
             recursively_add_parallels(em, edges[i].target_node_id, st, depth + 1),
             depth)
recursively_add_parallels(em, start_node_id, st, depth) ==
    IF depth > RecursionLimit THEN [st EXCEPT !.err = TRUE]
    ELSE LET target_node_edges == Get(em, start_node_id)
             parallel_node_ids == parallel_node_ids_of(target_node_edges)
             st1 == IF is_fan_out(target_node_edges) /\ parallel_node_ids # <<>>
                    THEN detection_pass(em, start_node_id, parallel_node_ids, st)
                    ELSE st
         IN  add_parallels_loop(em, target_node_edges, 1, st1, depth)

\* lines 77-188: Graph.init.  outcome is "Graph", "ValueError" (raised at
\* line 133 or 156) or "RecursionError".
init(graph_config, arg_root_node_id) ==
    LET parsed == reorganize_edges(graph_config.edges, 1, EmptyDict, {})
        em == parsed.edge_mapping
        rncs == root_node_configs(graph_config.nodes, parsed.target_edge_ids)
        root_ids == [i \in DOMAIN rncs |-> rncs[i].id]
        root == resolve_root(arg_root_node_id, rncs)
        node_ids == recursively_add_node_ids(<<root.id>>, em, root.id)
        par == recursively_add_parallels(em, root.id,
                   [pm |-> EmptyDict, npm |-> EmptyDict, passes |-> <<>>,
                    err |-> FALSE], 1)
        failed(o) == [outcome |-> o, root_node_id |-> None, node_ids |-> <<>>,
                      edge_mapping |-> EmptyDict, parallel_mapping |-> EmptyDict,
                      node_parallel_mapping |-> EmptyDict, passes |-> <<>>]
    IN  IF graph_config.nodes = <<>> THEN failed("ValueError")
        ELSE IF root_not_found(root, root_ids) THEN failed("ValueError")
        ELSE IF par.err THEN [failed("RecursionError") EXCEPT !.passes = par.passes]
        ELSE [outcome |-> "Graph", root_node_id |-> root.id, node_ids |-> node_ids,
              edge_mapping |-> em, parallel_mapping |-> par.pm,
              node_parallel_mapping |-> par.npm, passes |-> par.passes]

\* ------------------------------------------------------------- operations
\* a variant of route_final_edges_of: the routes of the targets are not looked at
route_final_edges_of_unfiltered(graph_edges, routes_dict) == graph_edges

\* lines 227-229: the edges of one route step whose target has no routes entry
route_final_edges_of(graph_edges, routes_dict) ==
    SelectSeq(graph_edges, LAMBDA e : e.target_node_id \notin DOMAIN routes_dict)

\* lines 221-229
RECURSIVE route_final_graph_edges_of(_, _, _, _)
route_final_graph_edges_of(root_routes, i, em, routes_dict) ==
    IF i > Len(root_routes) THEN <<>>
    ELSE route_final_edges_of(Get(em, root_routes[i].node_id), routes_dict)
         \o route_final_graph_edges_of(root_routes, i + 1, em, routes_dict)

\* lines 235-245: the edge passes its condition check; check is the set of
\* (source, target) pairs for which the condition handler answers true
edge_runs(e, check) ==
    e.run_condition = NoCondition \/ <<e.source_node_id, e.target_node_id>> \in check

\* lines 231-251
RECURSIVE next_graph_nodes_of(_, _, _, _, _)
next_graph_nodes_of(edges, i, check, pm, npm) ==
    IF i > Len(edges) THEN <<>>
    ELSE LET e == edges[i]
             node_id == e.target_node_id
             parallel == IF node_id \in DOMAIN npm THEN pm[npm[node_id]]
                         ELSE NullParallel
         IN  (IF edge_runs(e, check) THEN <<NextGraphNode(node_id, parallel)>>
              ELSE <<>>)
             \o next_graph_nodes_of(edges, i + 1, check, pm, npm)

\* lines 213-253; called with the root's route list present when routes is
\* not empty (line 222 raises KeyError otherwise)
next_node_ids(g, routes_dict, check) ==
    IF DOMAIN routes_dict = {} THEN <<NextGraphNode(g.root_node_id, NullParallel)>>
    ELSE next_graph_nodes_of(
             route_final_graph_edges_of(routes_dict[g.root_node_id], 1,
                                        g.edge_mapping, routes_dict),
             1, check, g.parallel_mapping, g.node_parallel_mapping)

\* a variant of add_extra_edge_unknown: only the source is looked up
add_extra_edge_unknown_source_only(node_ids, s, t) == ~Contains(node_ids, s)

\* line 265
add_extra_edge_unknown(node_ids, s, t) ==
    ~Contains(node_ids, s) \/ ~Contains(node_ids, t)

\* a variant of add_extra_edge_duplicate: only the last edge is compared
add_extra_edge_duplicate_last_only(edges, t) ==
    edges # <<>> /\ edges[Len(edges)].target_node_id = t

\* line 271
add_extra_edge_duplicate(edges, t) ==
    \E i \in DOMAIN edges : edges[i].target_node_id = t

\* lines 255-280: the edge_mapping after the call
add_extra_edge(node_ids, em, s, t, c) ==
    IF add_extra_edge_unknown(node_ids, s, t) THEN em
    ELSE LET em1 == IF s \in DOMAIN em THEN em ELSE Put(em, s, <<>>)
         IN  IF add_extra_edge_duplicate(em1[s], t) THEN em1
             ELSE Put(em1, s, Append(em1[s], GraphEdge(s, t, c)))

\* lines 290-294
is_leaf(em, root, node_id) ==
    \/ node_id \notin DOMAIN em
    \/ node_id \in DOMAIN em /\ Len(em[node_id]) = 1
                             /\ em[node_id][1].target_node_id = root

\* lines 282-296
get_leaf_node_ids(node_ids, em, root) ==
    SelectSeq(node_ids, LAMBDA n : is_leaf(em, root, n))

\* ------------------------------------------------------------- inputs
\* The configs: NumNodes node configs "A", "B", ... in this order, "A" and "B"
\* of the START type, and an edge list the caller assembles entry by entry.
\* init reads the edge list only through the per-source lists and the target
\* set (lines 97-128), so the lists are drawn in one order per equivalence:
\* the sources come in the nodes' order, the source of an entry is "A" or an
\* earlier entry's target, and a node is first named as a target after all
\* nodes before it (the numbering of a breadth-first walk from "A").  An entry
\* without target only creates its source's list, so it comes first among its
\* source's entries; an entry without source does nothing, so it comes first
\* of all.
Handles == {None, "x"}
EdgeConfig(s, t, h) == [source |-> s, target |-> t, sourceHandle |-> h]
Mentioned(edges) ==
    {"A"} \cup {edges[i].target : i \in {j \in DOMAIN edges : edges[j].target # None}}
NextSources(edges) ==
    {s \in Mentioned(edges) :
        edges = <<>> \/ edges[Len(edges)].source = None
        \/ NodeIndex(s) >= NodeIndex(edges[Len(edges)].source)}
NextTargets(edges) ==
    {n \in Nodes : \A i \in 1..(NodeIndex(n) - 2) : NodeName[i + 1] \in Mentioned(edges)}
EdgeExtensions(edges) ==
    {EdgeConfig(s, t, h) : s \in NextSources(edges), t \in NextTargets(edges), h \in Handles}
    \cup {EdgeConfig(s, None, None) :
            s \in {x \in NextSources(edges) :
                     edges = <<>> \/ edges[Len(edges)].source # x}}
    \cup (IF edges = <<>> THEN {EdgeConfig(None, None, None)} ELSE {})
NodeConfigs ==
    [i \in 1..NumNodes |->
        [id |-> NodeName[i],
         type |-> IF NodeName[i] \in {"A", "B"} THEN START ELSE OtherType]]
\* the root_node_id argument: none, "A" or "B"
RootArgs == {None, "A", "B"}

\* ------------------------------------------------------------- state
VARIABLES
    graph_config,           \* the graph_config argument of Graph.init
    arg_root_node_id,       \* the root_node_id argument of Graph.init
    pc,                     \* "config", "Graph", "ValueError", "RecursionError"
    root_node_id,           \* Graph.root_node_id
    node_ids,               \* Graph.node_ids
    edge_mapping,           \* Graph.edge_mapping
    parallel_mapping,       \* Graph.parallel_mapping
    node_parallel_mapping,  \* Graph.node_parallel_mapping
    routes,                 \* Graph.run_state.routes
    passes,                 \* history: the detection passes of the build
    last_call,              \* history: the last operation called and its arguments
    result,                 \* what the last query returned, or the error it raised
    extra_edges             \* number of add_extra_edge calls made

vars == <<graph_config, arg_root_node_id, pc, root_node_id, node_ids, edge_mapping,
          parallel_mapping, node_parallel_mapping, routes, passes, last_call,
          result, extra_edges>>

graph == [root_node_id |-> root_node_id, node_ids |-> node_ids,
          edge_mapping |-> edge_mapping, parallel_mapping |-> parallel_mapping,
          node_parallel_mapping |-> node_parallel_mapping]

NoCall == [op |-> "none", source |-> None, target |-> None,
           run_condition |-> NoCondition, check |-> {}]
NoResult == [raised |-> None, value |-> <<>>]

Init ==
    /\ graph_config = [nodes |-> NodeConfigs, edges |-> <<>>]
    /\ arg_root_node_id = None
    /\ pc = "config"
    /\ root_node_id = None
    /\ node_ids = <<>>
    /\ edge_mapping = EmptyDict
    /\ parallel_mapping = EmptyDict
    /\ node_parallel_mapping = EmptyDict
    /\ routes = EmptyDict
    /\ passes = <<>>
    /\ last_call = NoCall
    /\ result = NoResult
    /\ extra_edges = 0

\* the caller adds one entry to the edge list of the config it will pass
Configure(max) ==
    /\ pc = "config"
    /\ Len(graph_config.edges) < max
    /\ \E e \in EdgeExtensions(graph_config.edges) :
          graph_config' = [graph_config EXCEPT !.edges = Append(@, e)]
    /\ UNCHANGED <<arg_root_node_id, pc, root_node_id, node_ids, edge_mapping,
                   parallel_mapping, node_parallel_mapping, routes, passes,
                   last_call, result, extra_edges>>

\* Graph.init(graph_config, variable_pool, root_node_id)
Build ==
    /\ pc = "config"
    /\ \E arg \in RootArgs :
          LET g == init(graph_config, arg)
          IN  /\ arg_root_node_id' = arg
              /\ pc' = g.outcome
              /\ root_node_id' = g.root_node_id
              /\ node_ids' = g.node_ids
              /\ edge_mapping' = g.edge_mapping
              /\ parallel_mapping' = g.parallel_mapping
              /\ node_parallel_mapping' = g.node_parallel_mapping
              /\ passes' = g.passes
    /\ routes' = EmptyDict
    /\ last_call' = [NoCall EXCEPT !.op = "init"]
    /\ result' = NoResult
    /\ UNCHANGED <<graph_config, extra_edges>>

\* Graph.add_extra_edge(source_node_id, target_node_id, run_condition)
AddExtraEdge ==
    /\ pc = "Graph"
    /\ extra_edges < MaxExtraEdges
    /\ \E s \in Nodes, t \in Nodes, c \in {NoCondition, RunCondition("x")} :
          /\ edge_mapping' = add_extra_edge(node_ids, edge_mapping, s, t, c)
          /\ last_call' = [NoCall EXCEPT !.op = "add_extra_edge", !.source = s,
                                         !.target = t, !.run_condition = c]
    /\ extra_edges' = extra_edges + 1
    /\ result' = NoResult
    /\ UNCHANGED <<graph_config, arg_root_node_id, pc, root_node_id, node_ids,
                   parallel_mapping, node_parallel_mapping, routes, passes>>

\* Graph.get_leaf_node_ids()
GetLeafNodeIds ==
    /\ pc = "Graph"
    /\ result' = [raised |-> None,
                  value |-> get_leaf_node_ids(node_ids, edge_mapping, root_node_id)]
    /\ last_call' = [NoCall EXCEPT !.op = "get_leaf_node_ids"]
    /\ UNCHANGED <<graph_config, arg_root_node_id, pc, root_node_id, node_ids,
                   edge_mapping, parallel_mapping, node_parallel_mapping, routes,
                   passes, extra_edges>>

\* The engine records a route step (run_state.routes is written by the engine
\* only).  next_node_ids reads the steps of the root's list and, of the other
\* lists, only whether the key is there: a step under another key is recorded
\* with the key as its node.
RouteCount == Len(Get(routes, root_node_id)) + Cardinality(DOMAIN routes \ {root_node_id})
RecordRoute ==
    /\ pc = "Graph"
    /\ RouteCount < MaxRoutes
    /\ \E k \in SeqToSet(node_ids), n \in SeqToSet(node_ids) :
          /\ k = root_node_id \/ (n = k /\ k \notin DOMAIN routes)
          /\ routes' = Put(routes, k,
                           Append(Get(routes, k),
                                  GraphStateRoute(Len(Get(routes, k)) + 1, n)))
    /\ last_call' = [NoCall EXCEPT !.op = "record_route"]
    /\ result' = NoResult
    /\ UNCHANGED <<graph_config, arg_root_node_id, pc, root_node_id, node_ids,
                   edge_mapping, parallel_mapping, node_parallel_mapping, passes,
                   extra_edges>>

\* the (source, target) pairs of the conditioned edges: what the condition
\* handler is asked about
ConditionedPairs ==
    UNION {{<<e.source_node_id, e.target_node_id>> :
              e \in {x \in SeqToSet(edge_mapping[s]) : x.run_condition # NoCondition}} :
           s \in DOMAIN edge_mapping}

\* Graph.next_node_ids(); the condition handler answers true for the pairs of
\* check, any subset of those it can be asked about
NextNodeIds ==
    /\ pc = "Graph"
    /\ \E check \in SUBSET ConditionedPairs :
          /\ last_call' = [NoCall EXCEPT !.op = "next_node_ids", !.check = check]
          /\ result' =
                IF DOMAIN routes # {} /\ root_node_id \notin DOMAIN routes
                THEN [raised |-> "KeyError", value |-> <<>>]
                ELSE [raised |-> None, value |-> next_node_ids(graph, routes, check)]
    /\ UNCHANGED <<graph_config, arg_root_node_id, pc, root_node_id, node_ids,
                   edge_mapping, parallel_mapping, node_parallel_mapping, routes,
                   passes, extra_edges>>

ConfigureBuild == Configure(MaxEdges)
ConfigureLive == Configure(MaxLiveEdges)

\* building a Graph from a config
Next ==
    \/ ConfigureBuild
    \/ Build

Spec == Init /\ [][Next]_vars

\* a Graph that is mutated and asked for its leaves
NextLive ==
    \/ ConfigureLive
    \/ Build
    \/ AddExtraEdge
    \/ GetLeafNodeIds

SpecLive == Init /\ [][NextLive]_vars

\* a Graph whose run the engine records and that is asked for its frontier
NextFrontier ==
    \/ ConfigureLive
    \/ Build
    \/ RecordRoute
    \/ NextNodeIds

SpecFrontier == Init /\ [][NextFrontier]_vars

\* ------------------------------------------------------------- properties
OutEdges(n) == Get(edge_mapping, n)
Targets(edges) == {edges[i].target_node_id : i \in DOMAIN edges}
\* the nodes reachable from the nodes of S along the edges of em, S included
RECURSIVE ForwardClosure(_, _)
ForwardClosure(S, em) ==
    LET T == S \cup UNION {Targets(em[n]) : n \in S \cap DOMAIN em}
    IN  IF T = S THEN S ELSE ForwardClosure(T, em)

\* C1: in every Graph state, after the build and after add_extra_edge calls,
\* node_ids holds no id twice and holds exactly the nodes reachable from
\* root_node_id along edge_mapping, the root included.
C1_NodeIdsAreClosure ==
    pc = "Graph" =>
        /\ NoDuplicates(node_ids)
        /\ SeqToSet(node_ids) = ForwardClosure({root_node_id}, edge_mapping)

\* a Graph of three nodes or more to which add_extra_edge added an edge back
\* to the root
C1_Witness ==
    /\ pc = "Graph"
    /\ Len(node_ids) >= 3
    /\ last_call.op = "add_extra_edge"
    /\ last_call.target = root_node_id
    /\ last_call.source # root_node_id
    /\ root_node_id \in Targets(OutEdges(last_call.source))

\* the targets init collects from the config (lines 100-112)
ConfigTargets ==
    {graph_config.edges[i].target :
        i \in {j \in DOMAIN graph_config.edges :
                 graph_config.edges[j].source # None /\ graph_config.edges[j].target # None}}
\* the START nodes of the config that are no edge's target, in config order
StartCandidates ==
    SelectSeq(graph_config.nodes,
              LAMBDA nc : nc.type = START /\ nc.id \notin ConfigTargets)

\* C2: a build without root_node_id from a config with a START node that is no
\* edge's target succeeds, and its root is the first such node.
C2_RootResolvedToStart ==
    (pc # "config" /\ arg_root_node_id = None /\ StartCandidates # <<>>) =>
        (pc = "Graph" /\ root_node_id = StartCandidates[1].id)

ConditionedEdges(n) == SelectSeq(OutEdges(n), LAMBDA e : e.run_condition # NoCondition)
BranchRoots(n) == Targets(ConditionedEdges(n))
\* the nodes a node leads to
LeadsTo(n) == ForwardClosure(Targets(OutEdges(n)), edge_mapping)
\* the root is the only node with more than one edge, it has conditioned edges
\* to two or more branch roots, all different, and each branch root leads to D,
\* which is neither the root nor a branch root
C3_Case(D) ==
    /\ pc = "Graph"
    /\ \A n \in DOMAIN edge_mapping : Len(edge_mapping[n]) > 1 => n = root_node_id
    /\ Len(OutEdges(root_node_id)) > 1
    /\ Cardinality(BranchRoots(root_node_id)) >= 2
    /\ Cardinality(BranchRoots(root_node_id)) = Len(ConditionedEdges(root_node_id))
    /\ D \notin BranchRoots(root_node_id) \cup {root_node_id}
    /\ \A b \in BranchRoots(root_node_id) : D \in LeadsTo(b)

\* C3: when the root is the only fan-out and its branch roots all lead to a
\* shared node D, the build creates exactly one GraphParallel, every branch
\* root is mapped to it and D is not mapped.
C3_SingleFanOut ==
    \A D \in Nodes :
        C3_Case(D) =>
            /\ Len(passes) = 1
            /\ Cardinality(DOMAIN parallel_mapping) = 1
            /\ \A b \in BranchRoots(root_node_id) :
                  /\ b \in DOMAIN node_parallel_mapping
                  /\ node_parallel_mapping[b] \in DOMAIN parallel_mapping
            /\ D \notin DOMAIN node_parallel_mapping

\* the Graph of A -x-> B, A -x-> C, B -> D, C -> D
C3_Witness ==
    /\ C3_Case("D")
    /\ root_node_id = "A"
    /\ BranchRoots("A") = {"B", "C"}
    /\ Targets(OutEdges("B")) = {"D"}
    /\ Targets(OutEdges("C")) = {"D"}
    /\ DOMAIN node_parallel_mapping = {"B", "C"}

\* C4: a fan-out at a branch root B of a scope S, whose conditioned targets lie
\* inside B's branch, gets a GraphParallel whose parent is S.
C4_NestedFanOutHasParent ==
    pc = "Graph" =>
        \A i, j \in DOMAIN passes :
            (/\ i < j
             /\ Contains(passes[i].in_branch_node_ids.keys, passes[j].node_id)
             /\ passes[j].node_id \in DOMAIN passes[j].npm_before
             /\ passes[j].npm_before[passes[j].node_id] = passes[i].parallel.id
             /\ SeqToSet(passes[j].parallel_node_ids) \subseteq
                    SeqToSet(passes[i].in_branch_node_ids.vals[passes[j].node_id]))
            => passes[j].parallel.parent_parallel_id = passes[i].parallel.id

\* the GraphStateRoutes of the root's route list
RootRoutes == routes[root_node_id]
\* the entry next_node_ids is to give for edge e, or none
FrontierEntry(e, check) ==
    IF /\ e.target_node_id \notin DOMAIN routes
       /\ (e.run_condition = NoCondition
           \/ <<e.source_node_id, e.target_node_id>> \in check)
    THEN <<[node_id |-> e.target_node_id,
            parallel |-> IF e.target_node_id \in DOMAIN node_parallel_mapping
                         THEN parallel_mapping[node_parallel_mapping[e.target_node_id]]
                         ELSE NullParallel]>>
    ELSE <<>>
\* the entries for the pairs (route step i.., edge j.. of its node), in order
RECURSIVE FrontierFrom(_, _, _)
FrontierFrom(i, j, check) ==
    IF i > Len(RootRoutes) THEN <<>>
    ELSE IF j > Len(OutEdges(RootRoutes[i].node_id)) THEN FrontierFrom(i + 1, 1, check)
    ELSE FrontierEntry(OutEdges(RootRoutes[i].node_id)[j], check)
         \o FrontierFrom(i, j + 1, check)

\* C5: next_node_ids gives the root alone, without parallel, when no route is
\* recorded; with routes that hold the root's list it gives, in order and
\* with repetitions, one entry per route step of that list and per edge of the
\* step's node whose target has no routes entry and whose condition, if any,
\* the handler accepts, with the parallel of the target if it has one.
C5_NextNodeIds ==
    (last_call.op = "next_node_ids" /\ result.raised = None) =>
        result.value =
            IF DOMAIN routes = {}
            THEN <<[node_id |-> root_node_id, parallel |-> NullParallel]>>
            ELSE FrontierFrom(1, 1, last_call.check)

\* a frontier that names one target twice, with its parallel, while a
\* conditioned edge was dropped
C5_Witness ==
    /\ last_call.op = "next_node_ids"
    /\ result.raised = None
    /\ DOMAIN routes # {}
    /\ Len(result.value) >= 2
    /\ result.value[1] = result.value[2]
    /\ result.value[1].parallel # NullParallel
    /\ \E p \in ConditionedPairs : p \notin last_call.check /\ p[2] \notin DOMAIN routes

\* the call of add_extra_edge(s, t, ...) is to change nothing: an end is not
\* in node_ids, or s has an edge to t
AddEdgeIsNoOp(s, t) ==
    \/ s \notin SeqToSet(node_ids)
    \/ t \notin SeqToSet(node_ids)
    \/ t \in Targets(OutEdges(s))

\* C6: add_extra_edge raises nothing and leaves the whole Graph as it was when
\* an end is not in node_ids or the source has an edge to the target already,
\* whatever the conditions; otherwise it appends exactly one edge to
\* edge_mapping[source] and changes nothing else.
C6_AddExtraEdgeFrame ==
    [][extra_edges' = extra_edges + 1 =>
          LET s == last_call'.source
              t == last_call'.target
              c == last_call'.run_condition
          IN  /\ pc' = "Graph"
              /\ <<root_node_id, node_ids, parallel_mapping, node_parallel_mapping,
                   routes>>' =
                 <<root_node_id, node_ids, parallel_mapping, node_parallel_mapping,
                   routes>>
              /\ AddEdgeIsNoOp(s, t) => edge_mapping' = edge_mapping
              /\ ~AddEdgeIsNoOp(s, t) =>
                    /\ DOMAIN edge_mapping' = DOMAIN edge_mapping \cup {s}
                    /\ edge_mapping'[s] = Append(OutEdges(s), GraphEdge(s, t, c))
                    /\ \A n \in DOMAIN edge_mapping \ {s} :
                          edge_mapping'[n] = edge_mapping[n]]_vars

\* add_extra_edge was called with a known source and an unknown target
C6_Witness ==
    /\ pc = "Graph"
    /\ last_call.op = "add_extra_edge"
    /\ last_call.source \in SeqToSet(node_ids)
    /\ last_call.target \notin SeqToSet(node_ids)

\* C7: get_leaf_node_ids gives, in node_ids order, the nodes of node_ids with
\* no outgoing edge or with a single outgoing edge, to the root.
C7_LeafNodes ==
    last_call.op = "get_leaf_node_ids" =>
        result.value =
            SelectSeq(node_ids,
                      LAMBDA n : \/ OutEdges(n) = <<>>
                                 \/ /\ Len(OutEdges(n)) = 1
                                    /\ OutEdges(n)[1].target_node_id = root_node_id)

ParentOf(id) == parallel_mapping[id].parent_parallel_id
\* the parallels reached from those of S by parent links, S included
RECURSIVE UpClosure(_)
UpClosure(S) ==
    LET T == S \cup {ParentOf(x) : x \in {y \in S : ParentOf(y) \in DOMAIN parallel_mapping}}
    IN  IF T = S THEN S ELSE UpClosure(T)
Ancestors(id) ==
    IF ParentOf(id) \in DOMAIN parallel_mapping THEN UpClosure({ParentOf(id)}) ELSE {}

\* C8: after a build the parallels form a forest: each GraphParallel created
\* has an id of its own, under which parallel_mapping holds it, its parent is
\* missing or a key of parallel_mapping, and no GraphParallel is its own
\* ancestor.
C8_ParallelsFormForest ==
    pc = "Graph" =>
        /\ Cardinality(DOMAIN parallel_mapping) = Len(passes)
        /\ \A id \in DOMAIN parallel_mapping :
              /\ parallel_mapping[id].id = id
              /\ ParentOf(id) = NoParallel \/ ParentOf(id) \in DOMAIN parallel_mapping
              /\ id \notin Ancestors(id)

\* a build that made a GraphParallel with a parent
C8_Witness ==
    /\ pc = "Graph"
    /\ \E id \in DOMAIN parallel_mapping : ParentOf(id) \in DOMAIN parallel_mapping

\* C9: a detection pass that creates a GraphParallel maps every node of every
\* branch (the branch root and the nodes of its branch, as
\* _fetch_all_node_ids_in_parallels gives them) to the new id.
C9_BranchNodesRecorded ==
    pc = "Graph" =>
        \A i \in DOMAIN passes :
            \A b \in SeqToSet(passes[i].in_branch_node_ids.keys) :
                \A n \in SeqToSet(passes[i].in_branch_node_ids.vals[b]) :
                    /\ n \in DOMAIN passes[i].npm_after
                    /\ passes[i].npm_after[n] = passes[i].parallel.id

\* C10: a build ends with a Graph or a ValueError, whatever the config.
C10_BuildTerminates == pc \in {"config", "Graph", "ValueError"}
====
